---- MODULE Spec2Model ----
(***************************************************************************)
(* Model of the quotation bot (src/app.py): the POST webhook handler, the  *)
(* AI parsing and normalisation of the extracted fields, the document      *)
(* rendering, the e-mail dispatch (Resend first, Gmail SMTP second) and    *)
(* the WhatsApp reply.                                                     *)
(*                                                                         *)
(* A Python str is a sequence of one-character strings.  A Python dict is  *)
(* a function whose DOMAIN is its set of keys.  A falsy None, "" or {} is  *)
(* the empty sequence.                                                     *)
(***************************************************************************)
EXTENDS Integers, Sequences, FiniteSets, TLC

\* ------------------------------------------------------------------------
\* Bounds of the model
\* ------------------------------------------------------------------------

\* Longest raw quantity string the extraction service returns in SpecNorm.
MaxQtyLen == 3

\* Longest raw rate string the extraction service returns in SpecNorm.
MaxRateLen == 4

\* ------------------------------------------------------------------------
\* Python values and string functions
\* ------------------------------------------------------------------------

None == << >>

\* JSON null inside the parsed payload (json.loads gives None for it).
Null == << "null" >>

Digits == {"0", "1", "2", "3", "4", "5", "6", "7", "8", "9"}

Letters == {"a", "b", "c", "j", "p", "R", "x", "N", "o", "n", "e", "s", "K", "g", "i"}

DigitVal(c) ==
    CASE c = "0" -> 0 [] c = "1" -> 1 [] c = "2" -> 2 [] c = "3" -> 3
      [] c = "4" -> 4 [] c = "5" -> 5 [] c = "6" -> 6 [] c = "7" -> 7
      [] c = "8" -> 8 [] c = "9" -> 9

DigitChar(d) ==
    CASE d = 0 -> "0" [] d = 1 -> "1" [] d = 2 -> "2" [] d = 3 -> "3"
      [] d = 4 -> "4" [] d = 5 -> "5" [] d = 6 -> "6" [] d = 7 -> "7"
      [] d = 8 -> "8" [] d = 9 -> "9"

\* str(value): a str is itself, None prints as "None".
PyStr(v) == IF v = Null THEN << "N", "o", "n", "e" >> ELSE v

IsSpace(c) == c = " "

IsDigit(c) == c \in Digits

\* str.isalnum() of one character.
IsAlnum(c) == c \in Digits \cup Letters

RECURSIVE LStrip(_)
LStrip(s) ==
    IF s = << >> THEN << >>
    ELSE IF IsSpace(Head(s)) THEN LStrip(Tail(s)) ELSE s

RECURSIVE RStrip(_)
RStrip(s) ==
    IF s = << >> THEN << >>
    ELSE IF IsSpace(s[Len(s)]) THEN RStrip(SubSeq(s, 1, Len(s) - 1)) ELSE s

\* str.strip()
Strip(s) == RStrip(LStrip(s))

\* re.sub(r"[^\d]", "", s): the digit characters of s, in order.
OnlyDigits(s) == SelectSeq(s, IsDigit)

IsNotComma(c) == c # ","

\* s.replace(",", "")
RemoveCommas(s) == SelectSeq(s, IsNotComma)

RECURSIVE Pow10(_)
Pow10(k) == IF k = 0 THEN 1 ELSE 10 * Pow10(k - 1)

\* The integer a string of digits denotes.
RECURSIVE DigitsVal(_)
DigitsVal(s) ==
    IF s = << >> THEN 0
    ELSE 10 * DigitsVal(SubSeq(s, 1, Len(s) - 1)) + DigitVal(s[Len(s)])

\* PyInt with int("") taken as 0 instead of a ValueError.
PyInt_EmptyIsZero(s) == [ok |-> TRUE, n |-> DigitsVal(s)]

\* int(s) for a string without sign or spaces: a ValueError unless s is one
\* or more digits.
PyInt(s) ==
    IF s # << >> /\ \A i \in 1..Len(s) : IsDigit(s[i])
    THEN [ok |-> TRUE, n |-> DigitsVal(s)]
    ELSE [ok |-> FALSE, n |-> 0]

\* str(n) for n >= 0.
RECURSIVE IntStr(_)
IntStr(n) ==
    IF n < 10 THEN << DigitChar(n) >>
    ELSE IntStr(n \div 10) \o << DigitChar(n % 10) >>

\* Position of the first "." of s, 0 when there is none.
RECURSIVE DotPos(_, _)
DotPos(s, i) ==
    IF i > Len(s) THEN 0
    ELSE IF s[i] = "." THEN i ELSE DotPos(s, i + 1)

\* float(s) for a stripped string made of digits, "." and other characters
\* (no sign, exponent, "inf", "nan" or "_"): digits with at most one ".",
\* at least one digit; anything else is a ValueError.  The value is kept as
\* the decimal m / 10^k the string denotes.
PyFloat(s) ==
    LET p == DotPos(s, 1)
        ip == IF p = 0 THEN s ELSE SubSeq(s, 1, p - 1)
        fp == IF p = 0 THEN << >> ELSE SubSeq(s, p + 1, Len(s))
        wellFormed == /\ \A i \in 1..Len(ip) : IsDigit(ip[i])
                      /\ \A i \in 1..Len(fp) : IsDigit(fp[i])
                      /\ Len(ip) + Len(fp) > 0
    IN  IF wellFormed
        THEN [ok |-> TRUE, m |-> DigitsVal(ip \o fp), k |-> Len(fp)]
        ELSE [ok |-> FALSE, m |-> 0, k |-> 0]

\* qty_num * price_num
Times(n, x) == [m |-> n * x.m, k |-> x.k]

\* The value of x in hundredths as the format spec .2f rounds it when x has
\* more than two fractional digits: to the nearest hundredth.  An exact
\* decimal tie goes the way of the double nearest to x (here: to even); no
\* rate over RateChars (last digit 6) and no product of it with a quantity
\* over QtyChars (last digit 2) is a tie.
Round2(x) ==
    LET d == Pow10(x.k - 2)
        q == x.m \div d
        r == x.m % d
    IN  IF 2 * r > d THEN q + 1
        ELSE IF 2 * r < d THEN q
        ELSE IF q % 2 = 0 THEN q ELSE q + 1

\* The "," option of the format spec: groups of three digits from the right.
RECURSIVE Grouped(_)
Grouped(ds) ==
    IF Len(ds) <= 3 THEN ds
    ELSE Grouped(SubSeq(ds, 1, Len(ds) - 3)) \o << "," >>
            \o SubSeq(ds, Len(ds) - 2, Len(ds))

\* The whole part and the two fractional digits .2f shows for x.
Whole(x) == IF x.k <= 2 THEN x.m \div Pow10(x.k) ELSE Round2(x) \div 100

Cents(x) ==
    IF x.k <= 2 THEN (x.m % Pow10(x.k)) * Pow10(2 - x.k) ELSE Round2(x) % 100

\* f"₹{x:,.2f}"
Money(x) ==
    << "₹" >> \o Grouped(IntStr(Whole(x))) \o << "." >>
        \o << DigitChar(Cents(x) \div 10), DigitChar(Cents(x) % 10) >>

\* ------------------------------------------------------------------------
\* parse_command_with_ai: required fields, numbers, defaults
\* ------------------------------------------------------------------------

\* datetime.date.today().strftime('%B %d, %Y')
today == << "November 04, 2026" >>

Nos == << "N", "o", "s" >>

required == << "product", "customer_name", "email", "rate", "quantity" >>

\* MissingOrEmpty without the strip(): only a missing or empty field counts.
MissingOrEmpty_NoStrip(context, field) ==
    \/ field \notin DOMAIN context
    \/ PyStr(context[field]) = << >>

\* The test of lines 125: the field is missing from the dict or blank.
MissingOrEmpty(context, field) ==
    \/ field \notin DOMAIN context
    \/ Strip(PyStr(context[field])) = << >>

\* bool(value) of a str or None: false for None and for "".
Truthy(v) == v # None /\ v # Null

\* dict.get(key), None when the key is absent.
Get(context, key) == IF key \in DOMAIN context THEN context[key] ELSE None

\* d with d[key] = value
Put(d, key, value) ==
    [f \in DOMAIN d \cup {key} |-> IF f = key THEN value ELSE d[f]]

\* d.setdefault(key, value)
SetDefault(d, key, value) == IF key \in DOMAIN d THEN d ELSE Put(d, key, value)

qty_num(context) == PyInt(OnlyDigits(PyStr(context["quantity"])))

price_num(context) == PyFloat(Strip(RemoveCommas(PyStr(context["rate"]))))

total_num(context) == Times(qty_num(context).n, price_num(context))

\* Lines 135-138: the four assignments after the numbers parsed.
Numbers(context) ==
    LET c1 == Put(context, "quantity", IntStr(qty_num(context).n))
        c2 == Put(c1, "rate_formatted", Money(price_num(context)))
        c3 == Put(c2, "total", Money(total_num(context)))
    IN  Put(c3, "rate", c2["rate_formatted"])

\* Lines 144-148.
Defaults(context) ==
    LET c1 == SetDefault(context, "date", today)
        c2 == SetDefault(c1, "company_name", << >>)
        c3 == SetDefault(c2, "hsn", << >>)
        c4 == SetDefault(c3, "q_no", << >>)
    IN  Put(c4, "units", IF Truthy(Get(c4, "units")) THEN c4["units"] ELSE Nos)

\* Lines 122-151 on the dict json.loads returned: None or the final context.
Normalize(context) ==
    IF \E i \in 1..Len(required) : MissingOrEmpty(context, required[i])
    THEN None
    ELSE IF ~qty_num(context).ok \/ ~price_num(context).ok
    THEN None
    ELSE Defaults(Numbers(context))

\* ------------------------------------------------------------------------
\* State
\* ------------------------------------------------------------------------

VARIABLES
    env,                    \* which environment variables are set (lines 12-18)
    pc,                     \* where handle_webhook stands
    customer_phone_number,  \* local of handle_webhook
    command_text,           \* local of handle_webhook
    raw,                    \* what the extraction service answered
    context,                \* local of handle_webhook
    doc_file,               \* local of handle_webhook
    email_sent,             \* local of handle_webhook
    reply_msg,              \* the message_text handed to send_whatsapp_reply
    files,                  \* the files in /tmp
    calls,                  \* the calls made for the request, in order
    response,               \* the HTTP status answered to the caller
    event,                  \* the POST body being handled
    META_VERIFY_TOKEN,      \* the verify token of the environment (line 17)
    get,                    \* the last GET /webhook and its answer
    renorm,                 \* results of normalising once more
    other                   \* a second request handled at the same time

vars == << env, pc, customer_phone_number, command_text, raw, context, doc_file,
           email_sent, reply_msg, files, calls, response, event,
           META_VERIFY_TOKEN, get, renorm, other >>

\* What the steps of the POST pipeline never touch.
aside == << META_VERIFY_TOKEN, get, renorm, other >>

EnvNames == {"GMAIL_USER", "GMAIL_PASS", "GEMINI_API_KEY", "META_ACCESS_TOKEN",
             "PHONE_NUMBER_ID", "RESEND_API_KEY"}

\* ------------------------------------------------------------------------
\* Inputs
\* ------------------------------------------------------------------------

Phone == << "9", "1", "9" >>

Command == << "quote for Raj, 500 pcs pipe at 600, email r@x" >>

\* The POST bodies Meta sends: no entry, a text message (its sender and body
\* possibly empty), a message of another type, a status update, a change
\* with neither, and a body whose shape raises inside the try of line 285.
Events ==
    {[kind |-> k, from |-> None, body |-> None] :
        k \in {"no_entry", "non_text", "status", "other", "malformed"}}
    \cup {[kind |-> "text", from |-> f, body |-> b] :
            f \in {None, Phone}, b \in {None, Command}}

Pipe == << "p", "i", "p", "e" >>

Raj == << "R", "a", "j" >>

Mail == << "r", "@", "x" >>

S500 == << "5", "0", "0" >>

S600 == << "6", "0", "0" >>

S6000 == << " ", "6", ",", "0", "0", "0", " " >>

Sabc == << "a", "b", "c" >>

\* A dict with the given keys left out when their value is Absent.
Absent == << "absent" >>

Dict(p, c, e, r, q) ==
    LET all == [product |-> p, customer_name |-> c, email |-> e, rate |-> r,
                quantity |-> q]
    IN  [f \in {g \in DOMAIN all : all[g] # Absent} |-> all[f]]

\* No POST body yet.
NoEvent == [kind |-> "none", from |-> None, body |-> None]

\* What model.generate_content and json.loads can give: the call raises,
\* the text is not JSON, the JSON is not an object, or it is an object.
NoAnswer == [kind |-> "none", json |-> None]

Failures ==
    {[kind |-> k, json |-> None] : k \in {"error", "unparseable", "not_object"}}

SampleResponses ==
    Failures
    \cup {[kind |-> "object", json |-> Dict(p, c, e, r, q)] :
            p \in {Absent, Pipe},
            c \in {Absent, << " " >>, Raj, Null},
            e \in {Absent, Null, Mail},
            r \in {Absent, S600, S6000, Sabc},
            q \in {S500, Sabc, << " ", " " >>}}

\* All strings over the characters cs of length at most n.
RECURSIVE Strs(_, _)
Strs(cs, n) ==
    IF n = 0 THEN {<< >>}
    ELSE LET shorter == Strs(cs, n - 1)
         IN  shorter \cup {Append(s, c) : s \in shorter, c \in cs}

QtyChars == {"2", "a", " "}

RateChars == {"6", ".", ","}

WideResponses ==
    {[kind |-> "object", json |-> Dict(Pipe, Raj, Mail, r, q)] :
        r \in Strs(RateChars, MaxRateLen), q \in Strs(QtyChars, MaxQtyLen)}

\* ------------------------------------------------------------------------
\* handle_webhook, POST
\* ------------------------------------------------------------------------

NotUnderstood ==
    << "Sorry, I couldn't understand your request. Please check the details and try again." >>

InternalError ==
    << "Sorry, an internal error occurred while creating your document." >>

\* Line 350.
SuccessMsg(ctx) ==
    << "Success! Your quotation for ", ctx["product"],
       " has been generated and sent to ", ctx["email"], "." >>

\* Line 354.
FailedMsg(ctx) ==
    << "Sorry, I created the quote but failed to send the email to ",
       ctx["email"], "." >>

Call(op, arg, res) == [op |-> op, arg |-> arg, res |-> res]

\* Accepted with the test of line 313 left out: any text message goes on.
Accepted_AnyText(ev) == ev.kind = "text"

\* Lines 285-316: the sender and the text of a text message, or nothing.
Accepted(ev) == ev.kind = "text" /\ ev.body # None /\ ev.from # None

\* Lines 280-316: a POST arrives while no request is being handled.  An
\* event that is not a text command is answered 200 at once.
ReceivePost ==
    /\ pc \in {"idle", "done"}
    /\ \E ev \in Events :
        /\ event' = ev
        /\ customer_phone_number' = IF ev.kind = "text" THEN ev.from ELSE None
        /\ command_text' = IF ev.kind = "text" THEN ev.body ELSE None
        /\ IF Accepted(ev)
           THEN pc' = "parse" /\ response' = "pending"
           ELSE pc' = "done" /\ response' = "200"
    /\ raw' = NoAnswer
    /\ context' = None
    /\ doc_file' = None
    /\ email_sent' = FALSE
    /\ reply_msg' = None
    /\ calls' = << >>
    /\ UNCHANGED << env, aside, files >>

\* Lines 80-155: what parse_command_with_ai returns for an answer of the
\* service.  Every exception is caught at line 153.
ParseResult(answer) ==
    IF answer.kind = "object" THEN Normalize(answer.json) ELSE None

\* AfterParse with the request waiting for an answer it understands instead
\* of replying at line 323.
AfterParse_Wait(ctx) ==
    IF ~Truthy(ctx)
    THEN [pc |-> "parse", msg |-> None]
    ELSE [pc |-> "render", msg |-> None]

\* AfterParse with the reply of line 323 left out: the handler just returns.
AfterParse_NoReply(ctx) ==
    IF ~Truthy(ctx)
    THEN [pc |-> "done", msg |-> None]
    ELSE [pc |-> "render", msg |-> None]

\* Lines 321-324: no context, so reply and return; else go on to render.
AfterParse(ctx) ==
    IF ~Truthy(ctx)
    THEN [pc |-> "reply", msg |-> NotUnderstood]
    ELSE [pc |-> "render", msg |-> None]

\* Lines 319-324: parse_command_with_ai, then the reply when it failed.
ParseCommand(answers) ==
    /\ pc = "parse"
    /\ \E answer \in (IF env.GEMINI_API_KEY THEN answers ELSE {NoAnswer}) :
        /\ raw' = answer
        /\ calls' = IF env.GEMINI_API_KEY
                    THEN Append(calls, Call("generate_content", command_text, answer.kind))
                    ELSE calls
        /\ context' = ParseResult(answer)
        /\ pc' = AfterParse(ParseResult(answer)).pc
        /\ reply_msg' = AfterParse(ParseResult(answer)).msg
    /\ UNCHANGED << env, aside, event, customer_phone_number, command_text, doc_file,
                    email_sent, files, response >>

IsSafeChar(c) == IsAlnum(c) \/ c \in {" ", "_", "-"}

\* Line 172.
safe_customer_name(ctx) == RStrip(SelectSeq(ctx["customer_name"], IsSafeChar))

\* Lines 173-174.
output_path(ctx) ==
    << "/tmp/Quotation_" >> \o safe_customer_name(ctx) \o << "_2026-11-04.docx" >>

\* Lines 162-186: the template loads, renders and saves, or something
\* raises and None is returned.  A customer_name that is no str raises.
RenderOutcomes(ctx) ==
    IF ctx["customer_name"] = Null THEN {"error"} ELSE {"saved", "error"}

\* Rendered with the path returned whether or not the document was saved.
Rendered_AlwaysPath(ctx, o) == output_path(ctx)

\* Lines 176-180: the path returned for an outcome.
Rendered(ctx, o) == IF o = "saved" THEN output_path(ctx) ELSE None

\* AfterRender with a failed render attempted again instead of replied to.
AfterRender_Retry(path) ==
    IF ~Truthy(path)
    THEN [pc |-> "render", msg |-> None]
    ELSE [pc |-> "resend", msg |-> None]

\* AfterRender with the test of line 328 left out.
AfterRender_NoCheck(path) == [pc |-> "resend", msg |-> None]

\* Lines 328-331: no doc_file, so reply and return; else go on to send.
AfterRender(path) ==
    IF ~Truthy(path)
    THEN [pc |-> "reply", msg |-> InternalError]
    ELSE [pc |-> "resend", msg |-> None]

\* Lines 327-331: create_quotation_from_template, then the reply when it
\* failed.
CreateQuotation ==
    /\ pc = "render"
    /\ \E o \in RenderOutcomes(context) :
        /\ calls' = Append(calls, Call("render", context["customer_name"], o))
        /\ doc_file' = Rendered(context, o)
        /\ files' = IF o = "saved" THEN files \cup {output_path(context)} ELSE files
        /\ pc' = AfterRender(Rendered(context, o)).pc
        /\ reply_msg' = AfterRender(Rendered(context, o)).msg
    /\ UNCHANGED << env, aside, event, customer_phone_number, command_text, raw, context,
                    email_sent, response >>

\* os.remove(attachment_path) inside its own try: the file goes, or the
\* removal raises and only a warning is logged.
RemoveOutcomes(path) == IF path \in files THEN {"removed", "error"} ELSE {"error"}

AfterRemove(path, o) == IF o = "removed" THEN files \ {path} ELSE files

\* Lines 198-231: reading the file raises, the POST raises, or Resend
\* answers with a status.
ResendOutcomes(path) ==
    IF path \in files THEN {"2xx", "non_2xx", "exception"} ELSE {"exception"}

\* ResendOk with any answer of Resend taken as success.
ResendOk_AnyStatus(o) == o \in {"2xx", "non_2xx"}

\* ResendOk with the return of line 227 never taken.
ResendOk_Never(o) == FALSE

\* Line 219.
ResendOk(o) == o = "2xx"

\* ReplyFor with the success reply sent whatever email_sent is.
ReplyFor_AlwaysSuccess(sent, ctx) == SuccessMsg(ctx)

\* Lines 348-354: the reply the handler chooses from email_sent.
ReplyFor(sent, ctx) == IF sent THEN SuccessMsg(ctx) ELSE FailedMsg(ctx)

\* Line 197.
ResendConfigured == env.RESEND_API_KEY

\* Lines 346, 191-231: the first part of send_email_with_attachment.  With
\* no attachment path False is returned at once.  On a 2xx answer the file
\* is removed, True is returned and the handler chooses the success reply
\* (lines 348-351).
TryResend ==
    /\ pc = "resend"
    /\ IF ~Truthy(doc_file)
       THEN /\ email_sent' = FALSE
            /\ pc' = "reply"
            /\ reply_msg' = ReplyFor(FALSE, context)
            /\ UNCHANGED << files, calls >>
       ELSE IF ResendConfigured
       THEN \E o \in ResendOutcomes(doc_file) :
              IF ResendOk(o)
              THEN \E rm \in RemoveOutcomes(doc_file) :
                     /\ calls' = calls \o << Call("resend", << context["email"], doc_file >>, o),
                                            Call("remove", doc_file, rm) >>
                     /\ files' = AfterRemove(doc_file, rm)
                     /\ email_sent' = TRUE
                     /\ pc' = "reply"
                     /\ reply_msg' = ReplyFor(TRUE, context)
              ELSE /\ calls' = Append(calls, Call("resend", << context["email"], doc_file >>, o))
                   /\ pc' = "gmail"
                   /\ UNCHANGED << files, email_sent, reply_msg >>
       ELSE /\ pc' = "gmail"
            /\ UNCHANGED << files, calls, email_sent, reply_msg >>
    /\ UNCHANGED << env, aside, event, customer_phone_number, command_text, raw, context,
                    doc_file, response >>

\* GmailConfigured with only GMAIL_USER tested.
GmailConfigured_UserOnly == env.GMAIL_USER

\* Line 234.
GmailConfigured == env.GMAIL_USER /\ env.GMAIL_PASS

\* Lines 238-258: yag.send returns, or something raises.
GmailOutcomes == {"sent", "exception"}

\* Lines 233-258, 348-354: the Gmail part of send_email_with_attachment,
\* then the handler's choice of reply.
TryGmail ==
    /\ pc = "gmail"
    /\ IF ~GmailConfigured
       THEN /\ email_sent' = FALSE
            /\ reply_msg' = ReplyFor(FALSE, context)
            /\ UNCHANGED << files, calls >>
       ELSE \E o \in GmailOutcomes :
              IF o = "sent"
              THEN \E rm \in RemoveOutcomes(doc_file) :
                     /\ calls' = calls \o << Call("gmail", << context["email"], doc_file >>, o),
                                            Call("remove", doc_file, rm) >>
                     /\ files' = AfterRemove(doc_file, rm)
                     /\ email_sent' = TRUE
                     /\ reply_msg' = ReplyFor(TRUE, context)
              ELSE /\ calls' = Append(calls, Call("gmail", << context["email"], doc_file >>, o))
                   /\ files' = files
                   /\ email_sent' = FALSE
                   /\ reply_msg' = ReplyFor(FALSE, context)
    /\ pc' = "reply"
    /\ UNCHANGED << env, aside, event, customer_phone_number, command_text, raw, context,
                    doc_file, response >>

\* Line 45.
MetaConfigured == env.META_ACCESS_TOKEN /\ env.PHONE_NUMBER_ID

\* Lines 63-64: the POST answers 2xx, or requests.post or raise_for_status
\* raises.
PostOutcomes == {"2xx", "HTTPError", "ConnectionError", "Timeout"}

\* RequestException with only HTTPError caught at line 66.
RequestException_HTTPOnly == {"HTTPError"}

\* Line 66: the exceptions the except clause catches.
RequestException == {"HTTPError", "ConnectionError", "Timeout"}

\* StatusAfter with every failure of the POST raised to the handler.
StatusAfter_Raise(o) == IF o = "2xx" THEN "200" ELSE "500"

\* The status the caller gets when send_whatsapp_reply ends with outcome o:
\* an exception nobody catches leaves the handler and Flask answers 500.
StatusAfter(o) == IF o = "2xx" \/ o \in RequestException THEN "200" ELSE "500"

\* Lines 44-72 and the return that follows the reply in the handler.
SendReply ==
    /\ pc = "reply"
    /\ LET invoked == Append(calls, Call("send_whatsapp_reply",
                                         << customer_phone_number, reply_msg >>, "called"))
       IN  IF ~MetaConfigured
           THEN calls' = invoked /\ response' = "200"
           ELSE \E o \in PostOutcomes :
                  /\ calls' = Append(invoked, Call("meta_post",
                                        << customer_phone_number, reply_msg >>, o))
                  /\ response' = StatusAfter(o)
    /\ pc' = "done"
    /\ UNCHANGED << env, aside, event, customer_phone_number, command_text, raw, context,
                    doc_file, email_sent, reply_msg, files >>

\* ------------------------------------------------------------------------
\* Specifications
\* ------------------------------------------------------------------------

\* The value META_VERIFY_TOKEN is set to.
Secret == << "s", "e", "c" >>

\* No GET handled yet.
NoGet == [mode |-> None, token |-> None, challenge |-> None,
          status |-> "none", body |-> None]

\* Nothing normalised a second time yet.
NoRenorm == [passes |-> 0, same |-> None, copy |-> None]

\* No second request.
OtherIdle == [pc |-> "idle", context |-> None, doc_file |-> None,
              email_sent |-> FALSE]

Idle ==
    /\ pc = "idle"
    /\ customer_phone_number = None
    /\ command_text = None
    /\ raw = NoAnswer
    /\ context = None
    /\ doc_file = None
    /\ email_sent = FALSE
    /\ reply_msg = None
    /\ files = {}
    /\ calls = << >>
    /\ response = "none"
    /\ event = NoEvent
    /\ get = NoGet
    /\ renorm = NoRenorm
    /\ other = OtherIdle

\* The process after import: any subset of the environment variables set.
Init ==
    /\ env \in [EnvNames -> BOOLEAN]
    /\ META_VERIFY_TOKEN = Secret
    /\ Idle

Next ==
    \/ ReceivePost
    \/ ParseCommand(SampleResponses)
    \/ CreateQuotation
    \/ TryResend
    \/ TryGmail
    \/ SendReply

Spec == Init /\ [][Next]_vars

\* ------------------------------------------------------------------------
\* handle_webhook, GET
\* ------------------------------------------------------------------------

Subscribe == << "subscribe" >>

Unsubscribe == << "unsubscribe" >>

Wrong == << "w", "r", "o", "n", "g" >>

Challenge == << "1", "2", "3" >>

\* request.args.get(...): None when the parameter is missing.
GetModes == {None, Subscribe, Unsubscribe}

GetTokens == {None, Secret, Wrong}

GetChallenges == {None, Challenge}

\* Verify with the comparison of line 271 left out.
Verify_AnyToken(mode, token, challenge, verify_token) ==
    IF mode = Subscribe /\ token # << >>
    THEN [status |-> "200", body |-> challenge]
    ELSE [status |-> "400", body |-> << "Failed verification" >>]

\* Lines 270-278: the answer to a GET.  A missing parameter and an empty
\* one are both falsy.
Verify(mode, token, challenge, verify_token) ==
    IF mode = Subscribe /\ token # << >>
    THEN IF token = verify_token
         THEN [status |-> "200", body |-> challenge]
         ELSE [status |-> "403", body |-> << "Verification token mismatch" >>]
    ELSE [status |-> "400", body |-> << "Failed verification" >>]

\* Lines 265-278: a GET /webhook, at any moment.
HandleGet ==
    /\ \E mode \in GetModes, token \in GetTokens, challenge \in GetChallenges :
        get' = [mode |-> mode, token |-> token, challenge |-> challenge,
                status |-> Verify(mode, token, challenge, META_VERIFY_TOKEN).status,
                body |-> Verify(mode, token, challenge, META_VERIFY_TOKEN).body]
    /\ UNCHANGED << env, pc, customer_phone_number, command_text, raw, context,
                    doc_file, email_sent, reply_msg, files, calls, response,
                    event, META_VERIFY_TOKEN, renorm, other >>

\* A deployment with every service configured and the verify token set or
\* not; GETs arrive between the steps of the POSTs.
InitVerify ==
    /\ env = [n \in EnvNames |-> TRUE]
    /\ META_VERIFY_TOKEN \in {None, Secret}
    /\ Idle

NextVerify ==
    \/ HandleGet
    \/ ReceivePost
    \/ ParseCommand(SampleResponses)
    \/ CreateQuotation
    \/ TryResend
    \/ TryGmail
    \/ SendReply

SpecVerify == InitVerify /\ [][NextVerify]_vars

\* ------------------------------------------------------------------------
\* handle_webhook, a second POST handled by another worker thread
\* ------------------------------------------------------------------------

Ravi == << "R", "a", "v", "i" >>

\* "Raj!" and "Raj" have the same safe_customer_name.
RajBang == << "R", "a", "j", "!" >>

\* The answers of the service for the commands of the two requests.
ConcResponses ==
    Failures
    \cup {[kind |-> "object", json |-> Dict(Pipe, c, Mail, S600, S500)] :
            c \in {Raj, RajBang, Ravi}}

\* The variables of the first request and of the GET side, which a step of
\* the second request leaves alone.
first == << env, pc, customer_phone_number, command_text, raw, context,
           doc_file, email_sent, reply_msg, calls, response, event,
           META_VERIFY_TOKEN, get, renorm >>

\* Lines 280-324 for the second request: a text command arrives and
\* parse_command_with_ai answers; without a context the reply follows.
OtherParse ==
    /\ other.pc \in {"idle", "done"}
    /\ \E answer \in ConcResponses :
        other' = [pc |-> AfterParse(ParseResult(answer)).pc,
                  context |-> ParseResult(answer),
                  doc_file |-> None,
                  email_sent |-> FALSE]
    /\ UNCHANGED << first, files >>

\* Lines 327-331 for the second request.
OtherRender ==
    /\ other.pc = "render"
    /\ \E o \in RenderOutcomes(other.context) :
        /\ other' = [other EXCEPT !.doc_file = Rendered(other.context, o),
                                  !.pc = AfterRender(Rendered(other.context, o)).pc]
        /\ files' = IF o = "saved" THEN files \cup {output_path(other.context)}
                    ELSE files
    /\ UNCHANGED first

\* Lines 191-231 for the second request.
OtherResend ==
    /\ other.pc = "resend"
    /\ IF ResendConfigured
       THEN \E o \in ResendOutcomes(other.doc_file) :
              IF ResendOk(o)
              THEN \E rm \in RemoveOutcomes(other.doc_file) :
                     /\ files' = AfterRemove(other.doc_file, rm)
                     /\ other' = [other EXCEPT !.email_sent = TRUE, !.pc = "reply"]
              ELSE /\ other' = [other EXCEPT !.pc = "gmail"]
                   /\ files' = files
       ELSE /\ other' = [other EXCEPT !.pc = "gmail"]
            /\ files' = files
    /\ UNCHANGED first

\* Lines 233-258 for the second request.
OtherGmail ==
    /\ other.pc = "gmail"
    /\ IF ~GmailConfigured
       THEN other' = [other EXCEPT !.pc = "reply"] /\ files' = files
       ELSE \E o \in GmailOutcomes :
              IF o = "sent"
              THEN \E rm \in RemoveOutcomes(other.doc_file) :
                     /\ files' = AfterRemove(other.doc_file, rm)
                     /\ other' = [other EXCEPT !.email_sent = TRUE, !.pc = "reply"]
              ELSE other' = [other EXCEPT !.pc = "reply"] /\ files' = files
    /\ UNCHANGED first

\* Lines 323, 330, 351, 354 for the second request: the reply, then return.
OtherReply ==
    /\ other.pc = "reply"
    /\ other' = [other EXCEPT !.pc = "done"]
    /\ UNCHANGED << first, files >>

\* A deployment with every service configured, serving two POSTs at a time.
InitConc ==
    /\ env = [n \in EnvNames |-> TRUE]
    /\ META_VERIFY_TOKEN = Secret
    /\ Idle

NextConc ==
    \/ ReceivePost
    \/ ParseCommand(ConcResponses)
    \/ CreateQuotation
    \/ TryResend
    \/ TryGmail
    \/ SendReply
    \/ OtherParse
    \/ OtherRender
    \/ OtherResend
    \/ OtherGmail
    \/ OtherReply

SpecConc == InitConc /\ [][NextConc]_vars

\* Every call the handler makes returns or times out (lines 63, 214: the
\* timeouts of the POSTs), so each step of a request that has started is
\* eventually taken; nothing obliges Meta to send another POST.
FairSpec ==
    /\ Init
    /\ [][Next]_vars
    /\ WF_vars(ParseCommand(SampleResponses))
    /\ WF_vars(CreateQuotation)
    /\ WF_vars(TryResend)
    /\ WF_vars(TryGmail)
    /\ WF_vars(SendReply)

\* A deployment with Gemini, Resend and Meta configured and no Gmail
\* credentials; the service answers with an object whose rate and quantity
\* range over all short strings.
InitNorm ==
    /\ env = [n \in EnvNames |-> n \notin {"GMAIL_USER", "GMAIL_PASS"}]
    /\ META_VERIFY_TOKEN = Secret
    /\ Idle

NextNorm ==
    \/ ReceivePost
    \/ ParseCommand(WideResponses)
    \/ CreateQuotation
    \/ TryResend
    \/ TryGmail
    \/ SendReply

SpecNorm == InitNorm /\ [][NextNorm]_vars

\* Lines 122-151 alone, on the dicts json.loads can return: the required
\* fields present, blank or unparsable, each optional field absent or given.
Kgs == << "K", "g", "s" >>

Given == << "g", "i", "v", "e", "n" >>

PureInputs ==
    {[kind |-> "object",
      json |-> LET d == Dict(Pipe, c, Mail, r, q)
                   opt == [date |-> dt, company_name |-> cn, hsn |-> h,
                           q_no |-> qn, units |-> u]
               IN  [f \in DOMAIN d \cup {g \in DOMAIN opt : opt[g] # Absent} |->
                        IF f \in DOMAIN d THEN d[f] ELSE opt[f]]] :
        c \in {Raj, << " " >>},
        r \in {S600, S6000, Sabc},
        q \in {S500, Sabc},
        dt \in {Absent, Given},
        cn \in {Absent, Given},
        h \in {Absent, Given},
        qn \in {Absent, Given},
        u \in {Absent, Null, << >>, << " " >>, Kgs}}

InitPure ==
    /\ env = [n \in EnvNames |-> TRUE]
    /\ META_VERIFY_TOKEN = Secret
    /\ pc = "idle"
    /\ customer_phone_number = None
    /\ command_text = None
    /\ raw \in PureInputs
    /\ context = None
    /\ doc_file = None
    /\ email_sent = FALSE
    /\ reply_msg = None
    /\ files = {}
    /\ calls = << >>
    /\ response = "none"
    /\ event = NoEvent
    /\ get = NoGet
    /\ renorm = NoRenorm
    /\ other = OtherIdle

\* The dict object after lines 122-151 ran over it: the assignments of lines
\* 135-148 are made in place, and none is made when the lines return early
\* or raise at lines 131-133.
InPlace(d) == IF Normalize(d) = None THEN d ELSE Normalize(d)

\* Lines 122-151 on the dict of the answer.
NormalizeOnce ==
    /\ renorm.passes = 0
    /\ context' = Normalize(raw.json)
    /\ renorm' = [renorm EXCEPT !.passes = 1]
    /\ UNCHANGED << env, pc, customer_phone_number, command_text, raw, doc_file,
                    email_sent, reply_msg, files, calls, response, event,
                    META_VERIFY_TOKEN, get, other >>

\* Lines 122-151 once more: over the same dict object, and over a dict
\* equal to the one json.loads returned.
NormalizeAgain ==
    /\ renorm.passes = 1
    /\ renorm' = [passes |-> 2,
                  same |-> Normalize(InPlace(raw.json)),
                  copy |-> Normalize(raw.json)]
    /\ UNCHANGED << env, pc, customer_phone_number, command_text, raw, context,
                    doc_file, email_sent, reply_msg, files, calls, response,
                    event, META_VERIFY_TOKEN, get, other >>

NextPure == NormalizeOnce \/ NormalizeAgain

SpecPure == InitPure /\ [][NextPure]_vars

\* ------------------------------------------------------------------------
\* Properties
\* ------------------------------------------------------------------------

CallsOf(op) == SelectSeq(calls, LAMBDA c : c.op = op)

Count(op) == Len(CallsOf(op))

Replies == CallsOf("send_whatsapp_reply")

\* The request is a text command: the pipeline runs for it.
IsCommand == customer_phone_number # None /\ command_text # None

IsProviderCall(c) == c.op \in {"resend", "gmail"}

\* A provider call that returned success.
IsSuccess(c) ==
    \/ c.op = "resend" /\ c.res = "2xx"
    \/ c.op = "gmail" /\ c.res = "sent"

SomeSuccess == \E i \in 1..Len(calls) : IsSuccess(calls[i])

\* The handler is about to reply, or has replied and returned.
Replying == pc \in {"reply", "done"} /\ IsCommand

\* The one reply of a finished request carries the text m.
RepliedWith(m) ==
    /\ Len(Replies) = 1
    /\ Replies[1].arg = << customer_phone_number, m >>

AllSpaces(s) == \A i \in 1..Len(s) : s[i] = " "

\* A required field of the answer is absent or blank.
LacksRequired(d) ==
    \E f \in {"product", "customer_name", "email", "rate", "quantity"} :
        f \notin DOMAIN d \/ AllSpaces(PyStr(d[f]))

\* C1: for every POST classified as a text command exactly one chat
\* notification goes to the sender before the handler returns, on every
\* path; never zero, never two.
NotifiedExactlyOnce ==
    /\ Len(Replies) <= 1
    /\ (pc = "done" /\ IsCommand) =>
          /\ Len(Replies) = 1
          /\ Replies[1].arg[1] = customer_phone_number
          /\ Replies[1].arg[2] = reply_msg
    /\ Count("meta_post") <= 1
    /\ (pc = "done" /\ IsCommand /\ env.META_ACCESS_TOKEN /\ env.PHONE_NUMBER_ID) =>
          /\ Count("meta_post") = 1
          /\ CallsOf("meta_post")[1].arg = << customer_phone_number, reply_msg >>

NotifiedAfterDelivery ==
    /\ pc = "done"
    /\ IsCommand
    /\ email_sent
    /\ Len(Replies) = 1
    /\ Count("meta_post") = 1

RenderFailed == \E i \in 1..Len(calls) : calls[i].op = "render" /\ calls[i].res = "error"

\* C3: whenever the renderer fails the user gets the "internal error
\* occurred while creating your document" reply and no delivery provider
\* is attempted.
RenderFailureStopsDelivery ==
    RenderFailed =>
        /\ Count("resend") = 0
        /\ Count("gmail") = 0
        /\ pc \in {"reply", "done"}
        /\ reply_msg = InternalError
        /\ pc = "done" => RepliedWith(InternalError)

RenderFailureReplied == pc = "done" /\ RenderFailed /\ RepliedWith(InternalError)

\* The document was rendered and the dispatcher has returned.
Dispatched == Replying /\ doc_file # None

\* C4: with a valid record and artifact, when every provider fails or is
\* unavailable the dispatcher returns failure, the reply names the target
\* address and says sending failed, and the artifact is not deleted.
AllProvidersFailKeepsArtifact ==
    (Dispatched /\ ~SomeSuccess) =>
        /\ ~email_sent
        /\ reply_msg = << "Sorry, I created the quote but failed to send the email to ",
                          raw.json["email"], "." >>
        /\ Count("remove") = 0
        /\ doc_file \in files
        /\ pc = "done" => RepliedWith(reply_msg)

BothProvidersFailed ==
    /\ pc = "done"
    /\ Dispatched
    /\ Count("resend") = 1
    /\ Count("gmail") = 1
    /\ ~SomeSuccess
    /\ doc_file \in files

IsSuccessMsg(m) ==
    /\ context # None
    /\ m = << "Success! Your quotation for ", raw.json["product"],
              " has been generated and sent to ", raw.json["email"], "." >>

RemoveFailed == \E i \in 1..Len(calls) : calls[i].op = "remove" /\ calls[i].res = "error"

\* C5: the success reply, naming the product and the address, is sent if
\* and only if some provider returned success; removal of the artifact is
\* attempted on that path and only on it; a failed removal leaves the
\* outcome Delivered.
SuccessIffDelivered ==
    /\ Replying => (IsSuccessMsg(reply_msg) <=> SomeSuccess)
    /\ Replying => (email_sent <=> SomeSuccess)
    /\ (pc = "done" /\ IsCommand /\ SomeSuccess) => RepliedWith(reply_msg)
    /\ Count("remove") = (IF SomeSuccess THEN 1 ELSE 0)
    /\ RemoveFailed => email_sent /\ IsSuccessMsg(reply_msg)

DeliveredThoughRemoveFailed ==
    /\ pc = "done"
    /\ RemoveFailed
    /\ doc_file \in files
    /\ IsSuccessMsg(reply_msg)
    /\ RepliedWith(reply_msg)

\* C6: providers are tried in priority order, Resend then Gmail: Gmail is
\* invoked only after Resend, when configured, was attempted and failed,
\* and once a provider succeeds no later provider is invoked.
ProvidersInPriorityOrder ==
    \A i \in 1..Len(calls) :
        /\ calls[i].op = "gmail" =>
              /\ env.RESEND_API_KEY =>
                    \E j \in 1..(i - 1) : calls[j].op = "resend" /\ calls[j].res # "2xx"
              /\ \A j \in (i + 1)..Len(calls) : calls[j].op # "resend"
        /\ IsSuccess(calls[i]) =>
              \A j \in (i + 1)..Len(calls) : ~IsProviderCall(calls[j])
        /\ IsProviderCall(calls[i]) =>
              \A j \in 1..Len(calls) : (j # i) => calls[j].op # calls[i].op

GmailAfterResendFailed ==
    /\ pc = "done"
    /\ Count("resend") = 1
    /\ CallsOf("resend")[1].res = "non_2xx"
    /\ Count("gmail") = 1
    /\ CallsOf("gmail")[1].res = "sent"

\* C7: a provider whose credentials are missing is skipped: no send call
\* is made to it, nothing is recorded for it as a failed attempt, and the
\* next provider is still attempted, so Resend unconfigured with Gmail
\* configured and succeeding is Delivered via Gmail.
UnconfiguredProviderSkipped ==
    /\ ~env.RESEND_API_KEY => Count("resend") = 0
    /\ ~(env.GMAIL_USER /\ env.GMAIL_PASS) => Count("gmail") = 0
    /\ (Dispatched /\ ~env.RESEND_API_KEY /\ env.GMAIL_USER /\ env.GMAIL_PASS) =>
          /\ Count("gmail") = 1
          /\ \E i \in 1..Len(calls) :
                calls[i].op = "gmail" /\ calls[i - 1].op = "render"
          /\ CallsOf("gmail")[1].res = "sent" => email_sent /\ IsSuccessMsg(reply_msg)

DeliveredViaGmailOnly ==
    /\ pc = "done"
    /\ ~env.RESEND_API_KEY
    /\ Count("resend") = 0
    /\ Count("gmail") = 1
    /\ email_sent

\* C8: every POST is acknowledged with 200 whatever the internal outcome;
\* no failure of event parsing, extraction, normalisation, rendering,
\* delivery or notification reaches the caller or changes the status.
AlwaysAcknowledged ==
    /\ response \in {"none", "pending", "200"}
    /\ pc = "done" => response = "200"

AcknowledgedAfterFailures ==
    /\ pc = "done"
    /\ response = "200"
    /\ ~email_sent
    /\ Count("gmail") = 1
    /\ \E i \in 1..Len(calls) : calls[i].op = "meta_post" /\ calls[i].res = "Timeout"

HasDigit(s) == \E i \in 1..Len(s) : s[i] \in Digits

\* s, commas removed and blanks trimmed, reads as a decimal: digits with at
\* most one point and at least one digit.
IsDecimal(s) ==
    LET t == Strip(RemoveCommas(s))
    IN  /\ HasDigit(t)
        /\ \A i \in 1..Len(t) : t[i] \in Digits \cup {"."}
        /\ Cardinality({i \in 1..Len(t) : t[i] = "."}) <= 1

Shown(amount) == DigitsVal(OnlyDigits(amount))

\* C10: for every valid raw extraction the record's total equals
\* quantity x unitRate exactly, quantity being the integer made of the
\* digit characters of the raw quantity and unitRate the raw rate with the
\* commas removed; units default to "Nos".
TotalIsExact ==
    (raw.kind = "object" /\ context # None) =>
        LET q == DigitsVal(OnlyDigits(raw.json["quantity"]))
            r == PyFloat(Strip(RemoveCommas(raw.json["rate"])))
        IN  /\ context["quantity"] = IntStr(q)
            /\ context["units"] = Nos
            /\ IF r.k <= 2
               THEN Shown(context["total"]) = (q * r.m) * Pow10(2 - r.k)
               ELSE Shown(context["total"]) * Pow10(r.k - 2) = q * r.m

\* C11: normalising the same raw extraction a second time does not fail and
\* gives the record the first normalisation gave, whether the second pass
\* runs over the same dict or over an equal one.
SecondPassIdentical ==
    renorm.passes = 2 => renorm.same = context /\ renorm.copy = context

\* The raw units of the answer, None when the key is absent or null.
RawUnits == IF Truthy(Get(raw.json, "units")) THEN raw.json["units"] ELSE None

\* The optional field f of the record is the value supplied, or dflt when
\* the answer has no such key.
SuppliedOr(f, dflt) ==
    context[f] = IF f \in DOMAIN raw.json THEN raw.json[f] ELSE dflt

\* C12: an absent date becomes todayDate; absent company_name, hsn and q_no
\* become the empty string; units becomes "Nos" when the raw value is absent
\* or blank (whitespace-only included) and is otherwise kept as supplied.
DefaultsApplied ==
    renorm.passes >= 1 /\ context # None =>
        /\ SuppliedOr("date", today)
        /\ SuppliedOr("company_name", << >>)
        /\ SuppliedOr("hsn", << >>)
        /\ SuppliedOr("q_no", << >>)
        /\ context["units"] =
              IF RawUnits = None \/ AllSpaces(RawUnits) THEN Nos ELSE RawUnits

\* The stage a call belongs to: 1 extraction, 2 rendering, 3 delivering,
\* 4 notification.
StageOf(op) ==
    CASE op = "generate_content" -> 1
      [] op = "render" -> 2
      [] op \in {"resend", "gmail", "remove"} -> 3
      [] op \in {"send_whatsapp_reply", "meta_post"} -> 4

\* C13: the stages of a request occur in the order extraction and
\* normalisation, rendering, delivering, notification: rendering starts only
\* with a normalised record, delivering only with a rendered artifact, the
\* notification only after the last stage that ran, and once the notifier
\* was invoked nothing but its own POST follows.
StagesInOrder ==
    /\ \A i, j \in 1..Len(calls) :
          i < j => StageOf(calls[i].op) <= StageOf(calls[j].op)
    /\ \A i, j \in 1..Len(calls) :
          i < j /\ calls[i].op = "send_whatsapp_reply" => calls[j].op = "meta_post"
    /\ pc = "render" \/ Count("render") > 0 => Truthy(context)
    /\ \A i \in 1..Len(calls) :
          IsProviderCall(calls[i]) =>
              \E j \in 1..(i - 1) : calls[j].op = "render" /\ calls[j].res = "saved"
    /\ pc \in {"resend", "gmail"} => Truthy(context) /\ Truthy(doc_file)
    /\ pc = "done" /\ IsCommand => Count("send_whatsapp_reply") = 1

\* A request went through all four stages and was notified.
AllStagesRan ==
    /\ pc = "done"
    /\ Len(calls) = 6
    /\ calls[1].op = "generate_content"
    /\ calls[2].op = "render"
    /\ calls[3].op = "resend" /\ calls[3].res = "non_2xx"
    /\ calls[4].op = "gmail" /\ calls[4].res = "exception"
    /\ calls[5].op = "send_whatsapp_reply"
    /\ calls[6].op = "meta_post"

\* C15: nothing is retried: within one request the extraction service, the
\* renderer, each delivery provider and the notifier are each invoked at
\* most once, whatever failed.
NothingRetried ==
    \A op \in {"generate_content", "render", "resend", "gmail",
                "send_whatsapp_reply", "meta_post"} : Count(op) <= 1

\* Every call of the request failed and each was made once.
EachFailedOnce ==
    /\ pc = "done"
    /\ Count("resend") = 1 /\ CallsOf("resend")[1].res = "exception"
    /\ Count("gmail") = 1 /\ CallsOf("gmail")[1].res = "exception"
    /\ Count("meta_post") = 1 /\ CallsOf("meta_post")[1].res = "Timeout"

\* The POST body is one the handler ignores.
Ignored ==
    \/ event.kind \in {"malformed", "no_entry", "status", "non_text", "other"}
    \/ event.kind = "text" /\ event.body = << >>

\* C16: a POST event that is malformed, has no entry, carries a status
\* update, a non-text message or an empty text body is acknowledged with
\* 200 and no pipeline stage runs for it: no extraction call, no document,
\* no delivery attempt, no chat notification.
IgnoredEventsOnlyAcknowledged ==
    Ignored =>
        /\ pc = "done"
        /\ response = "200"
        /\ calls = << >>
        /\ context = None /\ doc_file = None /\ ~email_sent /\ reply_msg = None

\* A text message with a sender and an empty body was acknowledged.
EmptyBodyAcknowledged ==
    /\ event.kind = "text" /\ event.from = Phone /\ event.body = << >>
    /\ response = "200"

\* The last step was a notifier failure: the credentials were missing or
\* the POST raised.
NotifierFailed ==
    /\ pc = "done" /\ IsCommand
    /\ \/ calls[Len(calls)].op = "send_whatsapp_reply"
       \/ calls[Len(calls)].op = "meta_post" /\ calls[Len(calls)].res # "2xx"

\* C17: a failure of the notifier is only logged: the step that fails
\* answers the caller 200, invokes the notifier once and posts at most once,
\* starts no stage, and leaves the delivery outcome, the record and the
\* files as they were.
NotifierFailureOnlyLogged ==
    [][pc = "reply" /\ NotifierFailed' =>
          /\ response' = "200"
          /\ email_sent' = email_sent /\ files' = files
          /\ doc_file' = doc_file /\ context' = context
          /\ Len(calls') <= Len(calls) + 2
          /\ SubSeq(calls', 1, Len(calls)) = calls
          /\ \A i \in (Len(calls) + 1)..Len(calls') : StageOf(calls'[i].op) = 4
          /\ Count("send_whatsapp_reply")' = 1 /\ Count("meta_post")' <= 1]_vars

\* The quotation was delivered and its file removed, and the notifier then
\* timed out.
NotifierFailedAfterDelivery ==
    /\ NotifierFailed
    /\ calls[Len(calls)].res = "Timeout"
    /\ email_sent /\ doc_file \notin files
    /\ response = "200"

\* C14: every request that enters the pipeline eventually reaches the
\* notification and the handler returns, whatever each external call
\* returned, provided each call returns.
EveryRequestNotified ==
    (pc = "parse") ~>
        (pc = "done" /\ Count("send_whatsapp_reply") = 1 /\ response \in {"200", "500"})

\* A request whose extraction, render and both providers went through and
\* whose notification failed has ended.
EndedAfterProviderFallback ==
    /\ pc = "done"
    /\ Count("resend") = 1 /\ CallsOf("resend")[1].res = "non_2xx"
    /\ Count("gmail") = 1 /\ CallsOf("gmail")[1].res = "sent"
    /\ Count("meta_post") = 1 /\ CallsOf("meta_post")[1].res = "ConnectionError"

\* The answer to the last GET is the one the handshake prescribes.
HandshakeAnswer ==
    /\ get.status = "200" <=>
          get.mode = Subscribe /\ get.token # << >> /\ get.token = META_VERIFY_TOKEN
    /\ get.status = "200" => get.body = get.challenge
    /\ get.status = "403" <=>
          get.mode = Subscribe /\ get.token # << >> /\ get.token # META_VERIFY_TOKEN
    /\ get.status = "400" <=>
          get # NoGet /\ (get.mode # Subscribe \/ get.token = << >>)

\* C18: a GET is answered 200 with the challenge only when hub.mode is
\* "subscribe" and the non-empty token equals the verify token; a non-empty
\* token that differs gives 403; a missing or wrong mode or a missing token
\* gives 400; and a GET runs no pipeline stage.
HandshakeOnly ==
    /\ []HandshakeAnswer
    /\ [][get' # get =>
            UNCHANGED << pc, customer_phone_number, command_text, raw, context,
                         doc_file, email_sent, reply_msg, files, calls,
                         response, event >>]_vars

\* A GET with the right token was answered with the challenge while a
\* request was waiting to be delivered.
VerifiedDuringRequest ==
    /\ get.status = "200" /\ get.body = Challenge
    /\ pc = "resend"

\* The request is between its render and the end of its delivery.
AboutToDeliver == pc \in {"resend", "gmail"}

OtherAboutToDeliver == other.pc \in {"resend", "gmail"}

\* The file a request is about to deliver is there.
ArtifactsInPlace ==
    /\ AboutToDeliver => doc_file \in files
    /\ OtherAboutToDeliver => other.doc_file \in files

\* A render of one request does not save to the path the other request is
\* about to deliver.
NoOverwrite ==
    /\ AboutToDeliver /\ other.pc = "render" /\ other'.pc = "resend"
         => other'.doc_file # doc_file
    /\ OtherAboutToDeliver /\ pc = "render" /\ pc' = "resend"
         => doc_file' # other.doc_file

\* C19: two requests handled at the same time are independent: the
\* rendering of one never writes over the file the other is about to
\* deliver, and the removal after a successful delivery of one never
\* removes it, the same sanitized customer name on the same day included.
RequestsIndependent ==
    /\ []ArtifactsInPlace
    /\ [][NoOverwrite]_vars

====
